---- MODULE Spec2Model ----
(***************************************************************************)
(* The chat-agent edge function (supabase/functions/chat-agent/index.ts):  *)
(* the request handler, the runAgent tool-calling loop, callOpenAI,        *)
(* executeTool / webSearch, and the messages / conversations tables the    *)
(* handler writes.  Every await of the handler is one step, so that two    *)
(* handlers serving requests at the same time interleave at the awaits.    *)
(* The useChat hook of a client (src/hooks/useChat.ts) is modelled after   *)
(* the handler's specifications.                                           *)
(***************************************************************************)
EXTENDS Integers, Sequences, FiniteSets, TLC

\* index.ts:168  const maxIterations = 5
maxIterations == 5

\* Bound of the model: store operations that may fail in one behaviour.
MaxStoreFaults == 1

\* The invocations of the handler.  Deno.serve runs the handler once per
\* request; two requests are two invocations, which may overlap.
Handlers == {"h1", "h2"}

\* A request without conversationId (undefined / null: falsy at index.ts:219).
NoId == 0

(***************************************************************************)
(* Messages (index.ts:9-23).  tool_calls is a sequence; the empty sequence *)
(* stands for undefined, null and []: index.ts:176 treats them alike.      *)
(* tool_call_id "" stands for undefined / null (falsy at index.ts:260).    *)
(***************************************************************************)
Msg(role, content, tool_calls, tool_call_id) ==
  [role |-> role, content |-> content, tool_calls |-> tool_calls,
   tool_call_id |-> tool_call_id]

ToolCall(id, name, arguments) ==
  [id |-> id, name |-> name, arguments |-> arguments]

\* index.ts:156-162: the template literal of four lines, the first of which
\* ends with a space.
systemMessage ==
  Msg("system",
      "You are a helpful AI assistant with access to web search. \n"
      \o "When users ask questions that require current information, use the "
      \o "web_search tool to find accurate, up-to-date answers.\n"
      \o "Always cite your sources when providing information from search results.\n"
      \o "Be concise but thorough in your responses.",
      <<>>, "")

(***************************************************************************)
(* The environment: what the requests, the completion provider, the search *)
(* provider and the store may answer.                                      *)
(***************************************************************************)
\* The second message is longer than the 50 characters a title keeps.
UserMessages ==
  {"Hello", "What's the weather in Paris today, and will it rain there tomorrow?"}

\* A request as the handler reads it (index.ts:205, 210): its method, whether
\* its body is JSON, and the conversationId and the message of the body.
\* messageType is the JavaScript type of message; message is its text,
\* "" when the body has no message.
Request(method, json, conversationId, messageType, message) ==
  [method |-> method, json |-> json, conversationId |-> conversationId,
   messageType |-> messageType, message |-> message]

\* The requests a handler may get, given the ids of the conversations there
\* are: a preflight; a body that is not JSON ("{not json"); {conversationId?,
\* message} with a string; the same without message ({} and
\* {conversationId}: with an id the user row goes to the store without
\* content, which is "" here as for every null content); and {message: 42}.  (A number as message of a request
\* with an id would be handed to the store as the row's content: what becomes
\* of it is the column's type, which the source does not hold.)
Requests(ids) ==
  {Request("OPTIONS", FALSE, NoId, "undefined", ""),
   Request("POST", FALSE, NoId, "undefined", ""),
   Request("POST", TRUE, NoId, "number", "42")}
  \cup {Request("POST", TRUE, c, "string", m) : c \in {NoId} \cup ids, m \in UserMessages}
  \cup {Request("POST", TRUE, c, "undefined", "") : c \in {NoId} \cup ids}

ArgsQuery == "{\"query\":\"weather in Paris today\"}"
ArgsEmpty == "{}"
ArgsNull == "null"
ArgsBroken == "{\"query\": "

\* The bodies a successful completion response may carry: content (null is
\* "") and tool_calls of choices[0].message.
ProviderReplies ==
  { [content |-> "Hi there!", tool_calls |-> <<>>],
    [content |-> "", tool_calls |-> <<>>],
    [content |-> "", tool_calls |-> <<ToolCall("call_1", "web_search", ArgsQuery)>>],
    [content |-> "Let me search.",
     tool_calls |-> <<ToolCall("call_1", "calculator", ArgsEmpty),
                      ToolCall("call_2", "web_search", ArgsQuery)>>],
    [content |-> "", tool_calls |-> <<ToolCall("call_1", "web_search", ArgsNull)>>],
    [content |-> "", tool_calls |-> <<ToolCall("call_1", "web_search", ArgsBroken)>>],
    [content |-> "", tool_calls |-> <<ToolCall("call_1", "calculator", ArgsBroken)>>] }

\* What a completion call meets: a network fault, a non-success status, or a
\* success with one of the bodies above.
CompletionOutcomes ==
  { [kind |-> "network", status |-> 0, body |-> "", reply |-> [content |-> "", tool_calls |-> <<>>]],
    [kind |-> "http", status |-> 500, body |-> "overloaded", reply |-> [content |-> "", tool_calls |-> <<>>]] }
  \cup { [kind |-> "ok", status |-> 200, body |-> "", reply |-> r] : r \in ProviderReplies }

\* Without the credential callOpenAI returns before it calls the provider.
Unasked ==
  [kind |-> "none", status |-> 0, body |-> "", reply |-> [content |-> "", tool_calls |-> <<>>]]

\* A stub of the provider: it answers with a final message or, while the
\* transcript holds no tool message, with one search call.
StubOutcomes(transcript) ==
  { o \in CompletionOutcomes :
      /\ o.kind = "ok"
      /\ \/ o.reply = [content |-> "Hi there!", tool_calls |-> <<>>]
         \/ /\ \A i \in DOMAIN transcript : transcript[i].role # "tool"
            /\ o.reply = [content |-> "",
                          tool_calls |-> <<ToolCall("call_1", "web_search", ArgsQuery)>>] }

\* A stub of the provider that answers every call with the final message.
AnswerOutcomes ==
  { o \in CompletionOutcomes :
      o.kind = "ok" /\ o.reply = [content |-> "Hi there!", tool_calls |-> <<>>] }

SearchResult(title, url, content) == [title |-> title, url |-> url, content |-> content]

\* What a search call meets: a network fault, a non-success status, or a
\* success with a (possibly empty) list of results.  The search provider
\* answers every call of one behaviour the same way (env.search).
SearchOutcomes ==
  { [kind |-> "network", status |-> 0, results |-> <<>>],
    [kind |-> "http", status |-> 429, results |-> <<>>],
    [kind |-> "ok", status |-> 200, results |-> <<>>],
    [kind |-> "ok", status |-> 200,
     results |-> <<SearchResult("Paris weather", "https://w.example/paris", "18C and cloudy"),
                   SearchResult("Meteo", "https://m.example", "Cloudy")>>] }

VARIABLES
  env,            \* Deno.env (which credentials are configured) and the
                  \* state of the search provider during the behaviour
  conversations,  \* the conversations table, in creation order
  messages,       \* the messages table, in creation order
  faults,         \* store operations that have failed so far
  answered,       \* what the deterministic stub of the completion provider
                  \* has answered so far: a set of [transcript, outcome]
  proc,           \* per handler: its position and its local variables
  chat            \* the useChat hook of one client: its state, its pending
                  \* calls and its realtime channel

vars == <<env, conversations, messages, faults, answered, proc, chat>>

\* What the deterministic stub answers to a transcript: what it answered to
\* the same transcript before, else any answer of the stub.
DeterministicOutcomes(transcript) ==
  IF \E a \in answered : a.transcript = transcript
  THEN {a.outcome : a \in {b \in answered : b.transcript = transcript}}
  ELSE StubOutcomes(transcript)

\* What a completion call may meet, given the transcript sent: anything
\* ("any"), what the stub answers ("stub"), the final message of the stub
\* ("answer"), or what the deterministic stub answers ("deterministic").
ProviderOutcomes(provider, transcript) ==
  IF provider = "any" THEN CompletionOutcomes
  ELSE IF provider = "stub" THEN StubOutcomes(transcript)
  ELSE IF provider = "answer" THEN AnswerOutcomes
  ELSE DeterministicOutcomes(transcript)

(***************************************************************************)
(* Pure functions of index.ts.                                             *)
(***************************************************************************)

\* JSON.parse of a tool call's arguments (index.ts:187), for the argument
\* strings the provider replies above carry.  threw: a SyntaxError.
JSONParse(s) ==
  CASE s = ArgsQuery -> [threw |-> FALSE, isNull |-> FALSE, query |-> "weather in Paris today",
                         error |-> ""]
    [] s = ArgsEmpty -> [threw |-> FALSE, isNull |-> FALSE, query |-> "", error |-> ""]
    [] s = ArgsNull  -> [threw |-> FALSE, isNull |-> TRUE, query |-> "", error |-> ""]
    [] OTHER         -> [threw |-> TRUE, isNull |-> FALSE, query |-> "",
                         error |-> "Unexpected end of JSON input"]

\* index.ts:63  `[${i + 1}] ${r.title}\n${r.url}\n${r.content}`
FormatResult(r, i) ==
  "[" \o ToString(i) \o "] " \o r.title \o "\n" \o r.url \o "\n" \o r.content

\* index.ts:62-64  results.map(...).join("\n\n")
RECURSIVE JoinResults(_, _)
JoinResults(results, i) ==
  IF i > Len(results) THEN ""
  ELSE IF i = Len(results) THEN FormatResult(results[i], i)
  ELSE FormatResult(results[i], i) \o "\n\n" \o JoinResults(results, i + 1)

\* index.ts:33-68.  Every fault inside the try is caught at 65-67.
webSearch(query, tavilyKey, o) ==
  IF ~tavilyKey
  THEN "Error: TAVILY_API_KEY not configured. Please add your Tavily API key to secrets."
  ELSE IF o.kind = "network" THEN "Search error: " \o "fetch failed"
  ELSE IF o.kind = "http"
  THEN "Search error: " \o "Tavily API error: " \o ToString(o.status)
  ELSE IF Len(o.results) = 0 THEN "No search results found."
  ELSE JoinResults(o.results, 1)

\* index.ts:92-99.  args.query is read only in the web_search case, and
\* reading a property of null throws a TypeError.
executeTool(name, args, tavilyKey, o) ==
  IF name = "web_search"
  THEN IF args.isNull
       THEN [threw |-> TRUE, value |-> "",
             error |-> "Cannot read properties of null (reading 'query')"]
       ELSE [threw |-> FALSE, value |-> webSearch(args.query, tavilyKey, o), error |-> ""]
  ELSE [threw |-> FALSE, value |-> "Unknown tool: " \o name, error |-> ""]

\* callOpenAI as it would be if a non-success response were reported like the
\* missing credential: as an assistant message instead of a throw.
callOpenAIReportsError(openaiKey, o) ==
  IF ~openaiKey
  THEN [threw |-> FALSE, error |-> "",
        message |-> Msg("assistant",
          "Error: OPENAI_API_KEY not configured. Please add your OpenAI API key to secrets.",
          <<>>, "")]
  ELSE IF o.kind = "network"
  THEN [threw |-> TRUE, error |-> "fetch failed", message |-> Msg("assistant", "", <<>>, "")]
  ELSE IF o.kind = "http"
  THEN [threw |-> FALSE, error |-> "",
        message |-> Msg("assistant",
          "OpenAI API error: " \o ToString(o.status) \o " - " \o o.body, <<>>, "")]
  ELSE [threw |-> FALSE, error |-> "",
        message |-> Msg("assistant", o.reply.content, o.reply.tool_calls, "")]

\* callOpenAI as it would be without the credential check of lines 106-115:
\* the request goes out without a key and the provider refuses it.
callOpenAISkipsKeyCheck(openaiKey, o) ==
  IF ~openaiKey \/ o.kind = "http"
  THEN [threw |-> TRUE,
        error |-> "OpenAI API error: " \o ToString(IF openaiKey THEN o.status ELSE 401)
                  \o " - " \o o.body,
        message |-> Msg("assistant", "", <<>>, "")]
  ELSE IF o.kind = "network"
  THEN [threw |-> TRUE, error |-> "fetch failed", message |-> Msg("assistant", "", <<>>, "")]
  ELSE [threw |-> FALSE, error |-> "",
        message |-> Msg("assistant", o.reply.content, o.reply.tool_calls, "")]

\* index.ts:102-152.  threw: the fetch rejected, or the throw of line 138.
callOpenAI(openaiKey, o) ==
  IF ~openaiKey
  THEN [threw |-> FALSE, error |-> "",
        message |-> Msg("assistant",
          "Error: OPENAI_API_KEY not configured. Please add your OpenAI API key to secrets.",
          <<>>, "")]
  ELSE IF o.kind = "network"
  THEN [threw |-> TRUE, error |-> "fetch failed", message |-> Msg("assistant", "", <<>>, "")]
  ELSE IF o.kind = "http"
  THEN [threw |-> TRUE,
        error |-> "OpenAI API error: " \o ToString(o.status) \o " - " \o o.body,
        message |-> Msg("assistant", "", <<>>, "")]
  ELSE [threw |-> FALSE, error |-> "",
        message |-> Msg("assistant", o.reply.content, o.reply.tool_calls, "")]

\* The tool message as it would be with the tool's name for its tool_call_id.
ToolMessageNamed(toolCall, result) == Msg("tool", result, <<>>, toolCall.name)

\* index.ts:190-194
ToolMessage(toolCall, result) == Msg("tool", result, <<>>, toolCall.id)

\* index.ts:176  !message.tool_calls || message.tool_calls.length === 0
NoToolCalls(message) == Len(message.tool_calls) = 0

\* The while condition as it would be with <= for <.
LoopContinuesInclusive(iterations) == iterations <= maxIterations

\* index.ts:170  the while condition
LoopContinues(iterations) == iterations < maxIterations

\* The title as it would be without the substring.
TitleUntruncated(message) == message

\* index.ts:210  await req.json(): rejects when the body is not JSON.
ReqJson(req) ==
  IF req.json THEN [threw |-> FALSE, error |-> ""]
  ELSE [threw |-> TRUE,
        error |-> "Expected property name or '}' in JSON at position 1"]

\* index.ts:222  message.substring: a TypeError unless message is a string.
SubstringError(messageType) ==
  IF messageType = "string" THEN ""
  ELSE IF messageType = "undefined"
  THEN "Cannot read properties of undefined (reading 'substring')"
  ELSE "message.substring is not a function"

\* index.ts:222  message.substring(0, 50)
TitleLen == 50
Title(message) == IF Len(message) > TitleLen THEN SubSeq(message, 1, TitleLen) ELSE message

(***************************************************************************)
(* The store's rows and the handler's responses.                           *)
(***************************************************************************)
\* index.ts:233-237 and 255-261: the row inserted for a message.
Row(conversation_id, m) ==
  [conversation_id |-> conversation_id, role |-> m.role, content |-> m.content,
   tool_calls |-> m.tool_calls, tool_call_id |-> m.tool_call_id]

RECURSIVE SelectHistory(_, _, _)
\* index.ts:242-246: the rows of one conversation, in creation order.
SelectHistory(rows, conversation_id, i) ==
  IF i > Len(rows) THEN <<>>
  ELSE IF rows[i].conversation_id = conversation_id
  THEN <<Msg(rows[i].role, rows[i].content, rows[i].tool_calls, rows[i].tool_call_id)>>
       \o SelectHistory(rows, conversation_id, i + 1)
  ELSE SelectHistory(rows, conversation_id, i + 1)

NoResponse == [status |-> 0, conversationId |-> NoId, response |-> "", error |-> ""]

\* index.ts:205-207: the answer to a preflight: 200 with no body.
OptionsResponse ==
  [status |-> 200, conversationId |-> NoId, response |-> "", error |-> ""]

\* index.ts:276-279
ErrorResponse(error) ==
  [status |-> 500, conversationId |-> NoId, response |-> "", error |-> error]

Fallback == "I apologize, but I couldn't generate a response."

RECURSIVE LastAssistant(_, _)
\* index.ts:265  agentMessages.filter(m => m.role === "assistant").pop():
\* the index of the last assistant message, 0 when there is none.
LastAssistant(agentMessages, i) ==
  IF i = 0 THEN 0
  ELSE IF agentMessages[i].role = "assistant" THEN i
  ELSE LastAssistant(agentMessages, i - 1)

\* index.ts:270  assistantResponse?.content || "I apologize, ..."
ResponseText(agentMessages) ==
  LET i == LastAssistant(agentMessages, Len(agentMessages)) IN
  IF i > 0 /\ agentMessages[i].content # "" THEN agentMessages[i].content ELSE Fallback

\* index.ts:267-273
SuccessResponse(actualConversationId, agentMessages) ==
  [status |-> 200, conversationId |-> actualConversationId,
   response |-> ResponseText(agentMessages), error |-> ""]

(***************************************************************************)
(* The handler (index.ts:204-281) and runAgent (index.ts:155-202).         *)
(*                                                                         *)
(* proc[h] holds handler h's position (pc) and its locals, named as in the *)
(* source.  Its other fields record what the handler did, for the          *)
(* properties: completions (calls of callOpenAI in this run), met (what    *)
(* each of them met: "nokey", "ok", "http" or "network"), replies (the     *)
(* messages callOpenAI returned), invoked (the ids of the tool calls       *)
(* handed to executeTool), sent (the transcript of the last completion     *)
(* call), history (the history runAgent was called with), thrownAt (the    *)
(* iteration in which an error                                             *)
(* left runAgent, 0 when none did), thrownBy (what threw), returned        *)
(* (runAgent returned to the handler), userRow (the index of the row of    *)
(* this turn's user message), savedAt (per saved message, the index of its *)
(* row, 0 when the insert failed), created (this turn inserted a           *)
(* conversation row).                                                      *)
(***************************************************************************)
IdleProc ==
  [pc |-> "idle", method |-> "", conversationId |-> NoId, message |-> "",
   messageType |-> "undefined",
   actualConversationId |-> NoId, conversationMessages |-> <<>>,
   newMessages |-> <<>>, iterations |-> 0, toolCalls |-> <<>>, toolIdx |-> 0,
   agentMessages |-> <<>>, saveIdx |-> 0, response |-> NoResponse,
   completions |-> 0, met |-> <<>>, replies |-> <<>>, invoked |-> <<>>,
   sent |-> <<>>, history |-> <<>>, thrownAt |-> 0,
   thrownBy |-> "", returned |-> FALSE, userRow |-> 0, savedAt |-> <<>>,
   created |-> FALSE]

\* useChat.ts:19-22: the state of the useChat hook at its first render;
\* nothing is pending.
IdleChat ==
  [conversations |-> <<>>, activeConversationId |-> NoId, messages |-> <<>>,
   sending |-> <<>>, fetches |-> <<>>, conversationFetches |-> <<>>,
   channel |-> NoId, events |-> <<>>, deletes |-> <<>>]

\* index.ts:264-273: after the last insert, the response.
Respond(p) ==
  [p EXCEPT !.pc = "done",
            !.response = SuccessResponse(p.actualConversationId, p.agentMessages)]

\* index.ts:201 and 251-254: runAgent returns newMessages, the handler starts
\* the loop that saves them.
Return(p) ==
  LET q == [p EXCEPT !.agentMessages = p.newMessages, !.returned = TRUE] IN
  IF Len(q.agentMessages) = 0 THEN Respond(q)
  ELSE [q EXCEPT !.pc = "saveMessages", !.saveIdx = 1]

\* The head of the loop as it would be if the cap skipped the body instead of
\* leaving the loop (while (true) with `continue` at the cap): the run goes
\* round without calling the provider and without returning.
LoopHeadSpinsAtCap(p) ==
  IF LoopContinues(p.iterations)
  THEN [p EXCEPT !.iterations = @ + 1, !.pc = "callOpenAI"]
  ELSE [p EXCEPT !.pc = "while"]

\* index.ts:170-173: the head of the while loop, up to the await of callOpenAI.
LoopHead(p) ==
  IF LoopContinues(p.iterations)
  THEN [p EXCEPT !.iterations = @ + 1, !.pc = "callOpenAI"]
  ELSE Return(p)

\* The handler as it would be if runAgent caught the error and returned the
\* messages it had collected.
CatchAndReturn(p, by, error) == Return([p EXCEPT !.thrownBy = by])

\* The catch of the handler as it would be if the error response carried the
\* conversation id like the success response.
CatchEchoesConversation(p, by, error) ==
  [p EXCEPT !.pc = "done",
            !.response = [ErrorResponse(error) EXCEPT !.conversationId = p.actualConversationId],
            !.thrownBy = by]

\* index.ts:274-280: the catch of the handler.
Catch(p, by, error) ==
  [p EXCEPT !.pc = "done", !.response = ErrorResponse(error), !.thrownBy = by]

\* runAgent's locals as they would be if newMessages were declared outside
\* the function: a run starts with the messages an earlier run left in it.
StartRunSharedMessages(p, history) ==
  LoopHead([p EXCEPT !.conversationMessages = <<systemMessage>> \o history,
                     !.newMessages =
                        IF \E g \in Handlers : proc[g].returned
                        THEN proc[CHOOSE g \in Handlers : proc[g].returned].newMessages
                        ELSE <<>>,
                     !.iterations = 0])

\* runAgent's locals as they would be if newMessages aliased
\* conversationMessages: the output would start with the system message and
\* the history.
StartRunAliasedMessages(p, history) ==
  LoopHead([p EXCEPT !.conversationMessages = <<systemMessage>> \o history,
                     !.newMessages = <<systemMessage>> \o history,
                     !.iterations = 0])

\* index.ts:164-167: runAgent's locals, from the history the handler loaded.
StartRun(p, history) ==
  LoopHead([p EXCEPT !.conversationMessages = <<systemMessage>> \o history,
                     !.newMessages = <<>>, !.iterations = 0])

\* The assistant message taken as it would be without the break of line 178.
TakeCompletionNoBreak(p, message) ==
  IF NoToolCalls(message)
  THEN LoopHead([p EXCEPT !.newMessages = Append(@, message)])
  ELSE [p EXCEPT !.newMessages = Append(@, message),
                 !.conversationMessages = Append(@, message),
                 !.toolCalls = message.tool_calls, !.toolIdx = 1,
                 !.pc = "executeTool"]

\* index.ts:176-183: the assistant message of a completion call.
TakeCompletion(p, message) ==
  IF NoToolCalls(message)
  THEN Return([p EXCEPT !.newMessages = Append(@, message)])
  ELSE [p EXCEPT !.newMessages = Append(@, message),
                 !.conversationMessages = Append(@, message),
                 !.toolCalls = message.tool_calls, !.toolIdx = 1,
                 !.pc = "executeTool"]

\* The tool loop as it would be if it left after the first tool call of the
\* assistant message.
TakeToolResultFirstOnly(p, toolCall, result) ==
  LET toolMessage == ToolMessage(toolCall, result)
      q == [p EXCEPT !.newMessages = Append(@, toolMessage),
                     !.conversationMessages = Append(@, toolMessage)]
  IN LoopHead(q)

\* index.ts:190-198: the tool message of one tool call, then the next tool
\* call or the head of the loop.
TakeToolResult(p, toolCall, result) ==
  LET toolMessage == ToolMessage(toolCall, result)
      q == [p EXCEPT !.newMessages = Append(@, toolMessage),
                     !.conversationMessages = Append(@, toolMessage)]
  IN IF p.toolIdx < Len(p.toolCalls)
     THEN [q EXCEPT !.toolIdx = @ + 1]
     ELSE LoopHead(q)

\* A store operation may fail while the behaviour has faults left.
StoreResults == IF faults < MaxStoreFaults THEN {"ok", "error"} ELSE {"ok"}

\* index.ts:204-216: the handler starts on a request.  A preflight is
\* answered at once; a body that is not JSON rejects req.json() into the
\* catch; else the handler has {conversationId, message} and goes on to the
\* store.
ReceiveRequest(h, req) ==
  /\ proc[h].pc = "idle"
  /\ LET p == [IdleProc EXCEPT !.method = req.method] IN
     proc' = [proc EXCEPT ![h] =
       IF req.method = "OPTIONS"
       THEN [p EXCEPT !.pc = "done", !.response = OptionsResponse]
       ELSE IF ReqJson(req).threw
       THEN Catch(p, "req.json", ReqJson(req).error)
       ELSE [p EXCEPT !.conversationId = req.conversationId,
                      !.message = req.message,
                      !.messageType = req.messageType,
                      !.actualConversationId = req.conversationId,
                      !.pc = IF req.conversationId = NoId
                             THEN "create" ELSE "saveUser"]]
  /\ UNCHANGED <<env, conversations, messages, faults, answered>>

\* index.ts:204-216: a request arrives, of a client that names no
\* conversation or one of the conversations there are.
Receive(h) ==
  \E req \in Requests({conversations[i].id : i \in DOMAIN conversations}) :
    ReceiveRequest(h, req)

\* The id the store gives the next conversation: ids are not used again.
NextConversationId == Cardinality({g \in Handlers : proc[g].created}) + 1

\* index.ts:219-228.  The argument of the insert is evaluated first: when
\* message is not a string, substring throws and the store is not called.
CreateConversation(h) ==
  /\ proc[h].pc = "create"
  /\ IF SubstringError(proc[h].messageType) # ""
     THEN /\ proc' = [proc EXCEPT ![h] =
                       Catch(@, "substring", SubstringError(proc[h].messageType))]
          /\ UNCHANGED <<conversations, faults>>
     ELSE \E res \in StoreResults :
       IF res = "ok"
       THEN LET id == NextConversationId IN
            /\ conversations' = Append(conversations,
                                       [id |-> id, title |-> Title(proc[h].message)])
            /\ proc' = [proc EXCEPT ![h] = [@ EXCEPT !.actualConversationId = id,
                                                     !.created = TRUE,
                                                     !.pc = "saveUser"]]
            /\ UNCHANGED faults
       ELSE /\ proc' = [proc EXCEPT ![h] = Catch(@, "store", "insert failed")]
            /\ faults' = faults + 1
            /\ UNCHANGED conversations
  /\ UNCHANGED <<env, messages, answered>>

\* index.ts:230-239.  A message the body does not hold gives a row without
\* content ("").
SaveUserMessage(h) ==
  /\ proc[h].pc = "saveUser"
  /\ \E res \in StoreResults :
       IF res = "ok"
       THEN /\ messages' = Append(messages,
                                  Row(proc[h].actualConversationId,
                                      Msg("user", proc[h].message, <<>>, "")))
            /\ proc' = [proc EXCEPT ![h] = [@ EXCEPT !.userRow = Len(messages) + 1,
                                                     !.pc = "loadHistory"]]
            /\ UNCHANGED faults
       ELSE /\ proc' = [proc EXCEPT ![h] = Catch(@, "store", "insert failed")]
            /\ faults' = faults + 1
            /\ UNCHANGED messages
  /\ UNCHANGED <<env, conversations, answered>>

\* index.ts:241-251 and 164-173: the history is read and runAgent runs up to
\* its first completion call.
LoadHistory(h) ==
  /\ proc[h].pc = "loadHistory"
  /\ \E res \in StoreResults :
       IF res = "ok"
       THEN /\ LET history == SelectHistory(messages, proc[h].actualConversationId, 1)
               IN proc' = [proc EXCEPT ![h] =
                             StartRun([@ EXCEPT !.history = history], history)]
            /\ UNCHANGED faults
       ELSE /\ proc' = [proc EXCEPT ![h] = Catch(@, "store", "select failed")]
            /\ faults' = faults + 1
  /\ UNCHANGED <<env, conversations, messages, answered>>

\* index.ts:173-183: one completion call returns or throws.
CallOpenAI(h, provider) ==
  /\ proc[h].pc = "callOpenAI"
  /\ \E o \in IF env.openaiKey
              THEN ProviderOutcomes(provider, proc[h].conversationMessages)
              ELSE {Unasked} :
       LET r == callOpenAI(env.openaiKey, o)
           p == [proc[h] EXCEPT !.completions = @ + 1,
                                !.met = Append(@, IF env.openaiKey THEN o.kind ELSE "nokey"),
                                !.sent = proc[h].conversationMessages]
       IN /\ proc' = [proc EXCEPT ![h] =
                     IF r.threw
                     THEN Catch([p EXCEPT !.thrownAt = p.iterations], "callOpenAI", r.error)
                     ELSE TakeCompletion([p EXCEPT !.replies = Append(@, r.message)],
                                         r.message)]
          /\ answered' = IF provider = "deterministic"
                         THEN answered \cup {[transcript |-> proc[h].conversationMessages,
                                              outcome |-> o]}
                         ELSE answered
  /\ UNCHANGED <<env, conversations, messages, faults>>

\* index.ts:186-198: one tool call of the assistant message is parsed and
\* executed.
ExecuteTool(h) ==
  /\ proc[h].pc = "executeTool"
  /\ LET p == proc[h]
         toolCall == p.toolCalls[p.toolIdx]
         args == JSONParse(toolCall.arguments)
     IN proc' = [proc EXCEPT ![h] =
          IF args.threw
          THEN Catch([p EXCEPT !.thrownAt = p.iterations], "JSON.parse", args.error)
          ELSE LET r == executeTool(toolCall.name, args, env.tavilyKey, env.search)
                   q == [p EXCEPT !.invoked = Append(@, toolCall.id)]
               IN IF r.threw
                  THEN Catch([q EXCEPT !.thrownAt = p.iterations], "executeTool", r.error)
                  ELSE TakeToolResult(q, toolCall, r.value)]
  /\ UNCHANGED <<env, conversations, messages, faults, answered>>

\* index.ts:254-273: one message of the run is inserted; the result of the
\* insert is not looked at.  After the last one the handler responds.
SaveMessage(h) ==
  /\ proc[h].pc = "saveMessages"
  /\ LET p == proc[h]
         msg == p.agentMessages[p.saveIdx]
     IN \E res \in StoreResults :
          /\ IF res = "ok"
             THEN /\ messages' = Append(messages, Row(p.actualConversationId, msg))
                  /\ UNCHANGED faults
             ELSE /\ faults' = faults + 1
                  /\ UNCHANGED messages
          /\ LET q == [p EXCEPT !.savedAt =
                         Append(@, IF res = "ok" THEN Len(messages) + 1 ELSE 0)]
             IN proc' = [proc EXCEPT ![h] =
                           IF p.saveIdx < Len(p.agentMessages)
                           THEN [q EXCEPT !.saveIdx = @ + 1]
                           ELSE Respond(q)]
  /\ UNCHANGED <<env, conversations, answered>>

Init ==
  /\ env \in [openaiKey : BOOLEAN, tavilyKey : BOOLEAN, search : SearchOutcomes]
  \* without the search credential the search provider is never called
  /\ ~env.tavilyKey => env.search = CHOOSE o \in SearchOutcomes : TRUE
  /\ conversations = <<>>
  /\ messages = <<>>
  /\ faults = 0
  /\ answered = {}
  /\ proc = [h \in Handlers |-> IdleProc]
  /\ chat = IdleChat

\* index.ts:216-273: a step of a handler that has read its request.
Continue(h, provider) ==
  \/ CreateConversation(h)
  \/ SaveUserMessage(h)
  \/ LoadHistory(h)
  \/ CallOpenAI(h, provider)
  \/ ExecuteTool(h)
  \/ SaveMessage(h)

Step(h, provider) ==
  \/ Receive(h)
  \/ Continue(h, provider)

\* One request, whatever the completion provider answers.
Next == Step("h1", "any") /\ UNCHANGED chat

Spec == Init /\ [][Next]_vars

(***************************************************************************)
(* One request as in Spec, with a store whose operations succeed, where    *)
(* every awaited call (store, completion provider, tool) eventually        *)
(* returns or fails: a handler that can take a step eventually takes one.  *)
(***************************************************************************)

InitLive ==
  /\ env \in [openaiKey : BOOLEAN, tavilyKey : BOOLEAN, search : SearchOutcomes]
  /\ ~env.tavilyKey => env.search = CHOOSE o \in SearchOutcomes : TRUE
  /\ conversations = <<>>
  /\ messages = <<>>
  /\ faults = MaxStoreFaults
  /\ answered = {}
  /\ proc = [h \in Handlers |-> IdleProc]
  /\ chat = IdleChat

SpecLive == InitLive /\ [][Next]_vars /\ WF_vars(Next)

(***************************************************************************)
(* Two requests whose handlers may overlap.  The second may name the       *)
(* conversation the first created.  The completion provider is the stub;   *)
(* both credentials are configured, the search finds results and no store  *)
(* operation fails.                                                        *)
(***************************************************************************)

InitConc ==
  /\ env \in [openaiKey : {TRUE}, tavilyKey : {TRUE},
               search : {o \in SearchOutcomes : Len(o.results) > 0}]
  /\ conversations = <<>>
  /\ messages = <<>>
  /\ faults = MaxStoreFaults
  /\ answered = {}
  /\ proc = [h \in Handlers |-> IdleProc]
  /\ chat = IdleChat

NextConc == (\E h \in Handlers : Step(h, "stub")) /\ UNCHANGED chat

SpecConc == InitConc /\ [][NextConc]_vars

(***************************************************************************)
(* Two requests as above, with store operations that may fail: the history *)
(* a turn loads may then lack messages an earlier run produced.            *)
(***************************************************************************)

InitTurns ==
  /\ env \in [openaiKey : {TRUE}, tavilyKey : {TRUE},
               search : {o \in SearchOutcomes : Len(o.results) > 0}]
  /\ conversations = <<>>
  /\ messages = <<>>
  /\ faults = 0
  /\ answered = {}
  /\ proc = [h \in Handlers |-> IdleProc]
  /\ chat = IdleChat

SpecTurns == InitTurns /\ [][NextConc]_vars

(***************************************************************************)
(* Two requests whose runs meet a deterministic stub of the completion     *)
(* provider and deterministic tools: the stub answers a transcript it has  *)
(* seen as it answered before, the search answers every call the same way. *)
(***************************************************************************)

InitDeterministic ==
  /\ env \in [openaiKey : {TRUE}, tavilyKey : BOOLEAN, search : SearchOutcomes]
  /\ ~env.tavilyKey => env.search = CHOOSE o \in SearchOutcomes : TRUE
  /\ conversations = <<>>
  /\ messages = <<>>
  /\ faults = MaxStoreFaults
  /\ answered = {}
  /\ proc = [h \in Handlers |-> IdleProc]
  /\ chat = IdleChat

NextDeterministic ==
  (\E h \in Handlers : Step(h, "deterministic")) /\ UNCHANGED chat

SpecDeterministic == InitDeterministic /\ [][NextDeterministic]_vars

(***************************************************************************)
(* The useChat hook (src/hooks/useChat.ts) of one client.  A message of    *)
(* its list is [id, role, content]; the id of a row of the messages table  *)
(* is its index.  Of the chat record:                                      *)
(*   conversations        the hook's list of conversations (rows of the    *)
(*                        conversations table as the last answered select  *)
(*                        of fetchConversations gave them)                 *)
(*   sending              the sendMessage call that has not got its        *)
(*                        response (isLoading): the handler serving it and *)
(*                        the activeConversationId of the render the call  *)
(*                        was made from                                    *)
(*   fetches              the fetchMessages calls that have not resolved:  *)
(*                        the conversation asked for and, once the store   *)
(*                        has answered, the answer                         *)
(*   conversationFetches  the same for the fetchConversations calls        *)
(*   deletes              the deleteConversation calls that have not       *)
(*                        resolved: the conversation to delete, the        *)
(*                        activeConversationId of the render the call was  *)
(*                        made from and, once the store has answered,      *)
(*                        whether with an error                            *)
(*   channel              the conversation the realtime channel is         *)
(*                        subscribed to                                    *)
(*   events               the rows whose INSERT event has not been handed  *)
(*                        to the callback yet                              *)
(***************************************************************************)

\* Bound of the model: calls of the hook to the store (fetchMessages,
\* fetchConversations, deleteConversation) pending when a click in the
\* conversation list starts another.
MaxPending == 2

PendingCalls ==
  Len(chat.fetches) + Len(chat.conversationFetches) + Len(chat.deletes)

\* useChat.ts:56-61 and 94: a row of the messages table as the hook keeps it.
ClientMessage(i) ==
  [id |-> i, role |-> messages[i].role, content |-> messages[i].content]

\* useChat.ts:55 and 95: the roles shown.
Visible(role) == role = "user" \/ role = "assistant"

RECURSIVE ConversationRows(_, _)
\* useChat.ts:42-46: the ids of the rows of one conversation, in creation
\* order.
ConversationRows(conversationId, i) ==
  IF i > Len(messages) THEN <<>>
  ELSE IF messages[i].conversation_id = conversationId
  THEN <<i>> \o ConversationRows(conversationId, i + 1)
  ELSE ConversationRows(conversationId, i + 1)

RECURSIVE VisibleMessages(_, _)
\* useChat.ts:54-61: data.filter(...).map(...)
VisibleMessages(data, k) ==
  IF k > Len(data) THEN <<>>
  ELSE IF Visible(messages[data[k]].role)
  THEN <<ClientMessage(data[k])>> \o VisibleMessages(data, k + 1)
  ELSE VisibleMessages(data, k + 1)

RECURSIVE ByUpdatedAtDescending(_)
\* useChat.ts:27-30: the rows of the conversations table by updated_at,
\* latest first.  No code of the repository writes updated_at after the
\* insert, so that this is the table in reverse creation order.
ByUpdatedAtDescending(rows) ==
  IF rows = <<>> THEN <<>>
  ELSE Append(ByUpdatedAtDescending(Tail(rows)), Head(rows))

\* useChat.ts:96-99: the updater of the realtime callback.
AppendUnlessPresent(prev, newMessage) ==
  IF \E k \in DOMAIN prev : prev[k].id = newMessage.id THEN prev
  ELSE Append(prev, newMessage)

\* The sequence without its k-th element.
Without(seq, k) == SubSeq(seq, 1, k - 1) \o SubSeq(seq, k + 1, Len(seq))

\* A call that waits for the store's answer.
Pending(conversationId) ==
  [conversationId |-> conversationId, answered |-> FALSE, error |-> FALSE,
   data |-> <<>>]

\* setActiveConversationId(c) and the effects it sets off.  With the id that
\* is active already no state changes and no effect runs.  Else useChat.ts:
\* 71-77: fetchMessages(c) is called, or, for null, the list is emptied;
\* 80-108: the channel of the former conversation is removed and, unless c is
\* null, one for c subscribed.
WithActiveConversationId(c) ==
  IF c = chat.activeConversationId THEN chat
  ELSE IF c = NoId
  THEN [chat EXCEPT !.activeConversationId = NoId,
                    !.messages = <<>>,
                    !.channel = NoId,
                    !.events = <<>>]
  ELSE [chat EXCEPT !.activeConversationId = c,
                    !.fetches = Append(@, Pending(c)),
                    !.channel = c,
                    !.events = <<>>]

\* Index.tsx:37 and ConversationList.tsx:37-46: an entry of the hook's list
\* of conversations is clicked, whatever the conversations table holds by
\* now; useChat.ts:179.
SetActiveConversationId ==
  /\ PendingCalls < MaxPending
  /\ \E k \in DOMAIN chat.conversations :
       /\ chat.conversations[k].id # chat.activeConversationId
       /\ chat' = WithActiveConversationId(chat.conversations[k].id)
  /\ UNCHANGED <<env, conversations, messages, faults, answered, proc>>

\* useChat.ts:168-171, with the effects of setActiveConversationId(null).
StartNewConversation ==
  /\ chat.activeConversationId # NoId \/ chat.messages # <<>>
  /\ chat' = [WithActiveConversationId(NoId) EXCEPT !.messages = <<>>]
  /\ UNCHANGED <<env, conversations, messages, faults, answered, proc>>

\* useChat.ts:42-46: the store answers the select of a pending fetchMessages
\* call, with the rows of the conversation or with an error.
FetchSelect ==
  \E k \in DOMAIN chat.fetches :
    /\ ~chat.fetches[k].answered
    /\ \E res \in StoreResults :
         /\ chat' = [chat EXCEPT !.fetches[k] =
              [@ EXCEPT !.answered = TRUE,
                        !.error = (res = "error"),
                        !.data = IF res = "ok"
                                 THEN ConversationRows(chat.fetches[k].conversationId, 1)
                                 ELSE <<>>]]
         /\ faults' = IF res = "ok" THEN faults ELSE faults + 1
    /\ UNCHANGED <<env, conversations, messages, answered, proc>>

\* useChat.ts:48-62: a fetchMessages call resumes after its await: on an
\* error it returns, else it replaces the list.
FetchResolve ==
  \E k \in DOMAIN chat.fetches :
    /\ chat.fetches[k].answered
    /\ chat' = [chat EXCEPT !.fetches = Without(@, k),
                            !.messages = IF chat.fetches[k].error THEN @
                                         ELSE VisibleMessages(chat.fetches[k].data, 1)]
    /\ UNCHANGED <<env, conversations, messages, faults, answered, proc>>

\* useChat.ts:27-30: the store answers the select of a pending
\* fetchConversations call, with the rows of the table or with an error.
FetchConversationsSelect ==
  \E k \in DOMAIN chat.conversationFetches :
    /\ ~chat.conversationFetches[k].answered
    /\ \E res \in StoreResults :
         /\ chat' = [chat EXCEPT !.conversationFetches[k] =
              [@ EXCEPT !.answered = TRUE,
                        !.error = (res = "error"),
                        !.data = IF res = "ok"
                                 THEN ByUpdatedAtDescending(conversations)
                                 ELSE <<>>]]
         /\ faults' = IF res = "ok" THEN faults ELSE faults + 1
    /\ UNCHANGED <<env, conversations, messages, answered, proc>>

\* useChat.ts:32-37: a fetchConversations call resumes after its await: on
\* an error it returns and the list stays, else it replaces the list.
FetchConversationsResolve ==
  \E k \in DOMAIN chat.conversationFetches :
    /\ chat.conversationFetches[k].answered
    /\ chat' = [chat EXCEPT !.conversationFetches = Without(@, k),
                            !.conversations =
                               IF chat.conversationFetches[k].error THEN @
                               ELSE chat.conversationFetches[k].data]
    /\ UNCHANGED <<env, conversations, messages, faults, answered, proc>>

\* useChat.ts:93-101: the callback of the channel gets the next INSERT event.
RealtimeInsert ==
  /\ Len(chat.events) > 0
  /\ LET newMessage == ClientMessage(Head(chat.events)) IN
     chat' = [chat EXCEPT !.events = Tail(@),
                          !.messages = IF Visible(newMessage.role)
                                       THEN AppendUnlessPresent(@, newMessage)
                                       ELSE @]
  /\ UNCHANGED <<env, conversations, messages, faults, answered, proc>>

RECURSIVE WithoutConversation(_, _)
\* useChat.ts:148-151: the conversations table without the row of this id.
WithoutConversation(rows, id) ==
  IF rows = <<>> THEN <<>>
  ELSE IF Head(rows).id = id THEN WithoutConversation(Tail(rows), id)
  ELSE <<Head(rows)>> \o WithoutConversation(Tail(rows), id)

\* Index.tsx:39 and ConversationList.tsx:58-61, useChat.ts:146-151: the
\* delete button of an entry of the hook's list is clicked and the delete is
\* sent to the store, whether the table still holds the row or not.
\* deleteConversation is the function of the render it was called from, so
\* the activeConversationId it tests at 161 is the one of now.
DeleteConversation ==
  /\ PendingCalls < MaxPending
  /\ \E k \in DOMAIN chat.conversations :
       chat' = [chat EXCEPT !.deletes =
                  Append(@, [id |-> chat.conversations[k].id,
                             activeConversationId |-> chat.activeConversationId,
                             answered |-> FALSE,
                             error |-> FALSE])]
  /\ UNCHANGED <<env, conversations, messages, faults, answered, proc>>

\* useChat.ts:147-150: the store executes a pending delete and answers it,
\* while deleteConversation waits.  On success the row, if there was one, is
\* gone from the conversations table (the rows of the messages table are
\* left to the schema, which the source does not hold: they stay); on an
\* error nothing is deleted.
DeleteExecute ==
  \E k \in DOMAIN chat.deletes :
    /\ ~chat.deletes[k].answered
    /\ \E res \in StoreResults :
         /\ chat' = [chat EXCEPT !.deletes[k] =
              [@ EXCEPT !.answered = TRUE, !.error = (res = "error")]]
         /\ conversations' = IF res = "ok"
                             THEN WithoutConversation(conversations,
                                                      chat.deletes[k].id)
                             ELSE conversations
         /\ faults' = IF res = "ok" THEN faults ELSE faults + 1
    /\ UNCHANGED <<env, messages, answered, proc>>

\* useChat.ts:152-164: deleteConversation resumes after its await.  On an
\* error it returns (after the toast); else, when the deleted conversation
\* was the active one of the call, setActiveConversationId(null), and
\* fetchConversations().
DeleteResolve ==
  \E k \in DOMAIN chat.deletes :
    LET d == chat.deletes[k] IN
    /\ d.answered
    /\ chat' =
         IF d.error
         THEN [chat EXCEPT !.deletes = Without(@, k)]
         ELSE [(IF d.activeConversationId = d.id
                THEN WithActiveConversationId(NoId) ELSE chat)
               EXCEPT !.deletes = Without(@, k),
                      !.conversationFetches = Append(@, Pending(NoId))]
    /\ UNCHANGED <<env, conversations, messages, faults, answered, proc>>

\* useChat.ts:111-120 and ChatInput.tsx:15: sendMessage("Hello") while no
\* call of it is under way (isLoading), and its request reaches a handler:
\* {conversationId: activeConversationId, message}, whatever the
\* conversations table holds.  The first request goes to h1.
SendMessage ==
  /\ chat.sending = <<>>
  /\ \E h \in Handlers :
       /\ h = "h1" \/ proc["h1"].pc # "idle"
       /\ ReceiveRequest(h, Request("POST", TRUE, chat.activeConversationId,
                                    "string", "Hello"))
       /\ chat' = [chat EXCEPT !.sending =
                     <<[handler |-> h,
                        activeConversationId |-> chat.activeConversationId]>>]

\* A step of the handler serving the request of sendMessage.  useChat.ts:
\* 85-92: the INSERT of a row of the conversation the channel is subscribed
\* to raises an event for it.  The completion provider answers with
\* its final message and the store operations of the handler succeed here:
\* the operations that may fail are those of the hook.
HandlerStep ==
  /\ chat.sending # <<>>
  /\ Continue(chat.sending[1].handler, "answer")
  /\ faults' = faults
  /\ chat' = [chat EXCEPT !.events =
       IF /\ Len(messages') > Len(messages)
          /\ chat.channel # NoId
          /\ messages'[Len(messages')].conversation_id = chat.channel
       THEN Append(@, Len(messages'))
       ELSE @]

\* useChat.ts:122-141: the response of the handler reaches sendMessage.  A
\* non-2xx response is response.error: it is thrown and shown as a toast.
\* Else, when the call was made with no active conversation, the
\* conversation of the response becomes the active one, whatever the
\* conversations table holds by now, and fetchConversations() is called.
\* In both cases isLoading is false again.
SendResponse ==
  /\ chat.sending # <<>>
  /\ LET s == chat.sending[1]
         response == proc[s.handler].response IN
     /\ proc[s.handler].pc = "done"
     /\ chat' =
          IF /\ response.status = 200
             /\ s.activeConversationId = NoId
             /\ response.conversationId # NoId
          THEN [WithActiveConversationId(response.conversationId)
                EXCEPT !.sending = <<>>,
                       !.conversationFetches = Append(@, Pending(NoId))]
          ELSE [chat EXCEPT !.sending = <<>>]
  /\ UNCHANGED <<env, conversations, messages, faults, answered, proc>>

\* useChat.ts:18-23 and 66-68: the hook after its first render, whose effect
\* has called fetchConversations().
InitChat ==
  /\ env \in [openaiKey : {TRUE}, tavilyKey : {TRUE},
               search : {o \in SearchOutcomes : Len(o.results) > 0}]
  /\ conversations = <<>>
  /\ messages = <<>>
  /\ faults = 0
  /\ answered = {}
  /\ proc = [h \in Handlers |-> IdleProc]
  /\ chat = [IdleChat EXCEPT !.conversationFetches = <<Pending(NoId)>>]

NextChat ==
  \/ SendMessage
  \/ HandlerStep
  \/ SendResponse
  \/ SetActiveConversationId
  \/ StartNewConversation
  \/ FetchSelect
  \/ FetchResolve
  \/ FetchConversationsSelect
  \/ FetchConversationsResolve
  \/ RealtimeInsert
  \/ DeleteConversation
  \/ DeleteExecute
  \/ DeleteResolve

SpecChat == InitChat /\ [][NextChat]_vars

(***************************************************************************)
(* Properties.                                                             *)
(***************************************************************************)

RECURSIVE NearestAssistant(_, _)
\* The index of the nearest assistant message before position i, 0 if none.
NearestAssistant(seq, i) ==
  IF i <= 1 THEN 0
  ELSE IF seq[i - 1].role = "assistant" THEN i - 1
  ELSE NearestAssistant(seq, i - 1)

\* The tool calls of the nearest preceding assistant message that carry the
\* tool_call_id of the tool message at position i.
MatchingCalls(seq, i) ==
  LET j == NearestAssistant(seq, i) IN
  IF j = 0 THEN {}
  ELSE {k \in DOMAIN seq[j].tool_calls : seq[j].tool_calls[k].id = seq[i].tool_call_id}

ToolPositions(seq) == {i \in DOMAIN seq : seq[i].role = "tool"}

\* C1: in every run of runAgent, whatever the completion provider answers,
\* at most 5 completion calls are made (and the loop counter stays at most 5).
C1_IterationCap ==
  \A h \in Handlers :
    /\ proc[h].completions <= 5
    /\ proc[h].iterations <= 5

\* A run that made all five completion calls.
C1_Witness ==
  proc["h1"].completions = 5 /\ proc["h1"].returned

\* C2: in every output of runAgent, each tool message carries the id of a
\* tool call listed in the nearest preceding assistant message of that output.
C2_ToolIdsPaired ==
  \A h \in Handlers :
    proc[h].returned =>
      \A i \in ToolPositions(proc[h].agentMessages) :
        MatchingCalls(proc[h].agentMessages, i) # {}

\* An output in which a tool message follows another tool message: its
\* assistant message is not the message right before it.
C2_Witness ==
  /\ proc["h1"].returned
  /\ \E i \in ToolPositions(proc["h1"].agentMessages) :
       /\ i > 1
       /\ proc["h1"].agentMessages[i - 1].role = "tool"
       /\ proc["h1"].agentMessages[i].tool_call_id = "call_2"

\* C3: a failure while executing a tool call (unknown tool, missing search
\* credential, faulty search response, arguments the tool cannot interpret)
\* never aborts the turn: no turn ends by an error thrown while a tool call
\* is parsed and executed.
C3_ToolFailureNeverAborts ==
  \A h \in Handlers :
    proc[h].pc = "done" => proc[h].thrownBy \notin {"JSON.parse", "executeTool"}

\* C4: whenever the output of runAgent has no trailing assistant message, the
\* response text is the fixed fallback, never the content of an earlier
\* assistant message.
C4_FallbackWithoutTrailingAssistant ==
  \A h \in Handlers :
    LET out == proc[h].agentMessages IN
    (/\ proc[h].pc = "done"
     /\ proc[h].returned
     /\ proc[h].response.status = 200
     /\ (Len(out) = 0 \/ out[Len(out)].role # "assistant"))
    => proc[h].response.response = Fallback

\* A completion call of iteration k > 1 met a transport-level error.
TransportErrorAfterFirst(h) ==
  /\ Len(proc[h].met) > 1
  /\ proc[h].met[Len(proc[h].met)] \in {"http", "network"}

\* C5 as stated: when the completion call fails with a transport-level error
\* in iteration k > 1, the messages collected in iterations 1..k-1 are
\* returned to the caller of runAgent.
C5_PartialOutputReturned ==
  \A h \in Handlers :
    TransportErrorAfterFirst(h) =>
      proc[h].returned /\ proc[h].agentMessages = proc[h].newMessages

\* C5 as amended: when the completion call fails with a transport-level
\* error in iteration k > 1, runAgent returns nothing: the error leaves
\* runAgent for the handler's catch, the messages collected in iterations
\* 1..k-1 never reach the handler and none of them is stored, and the turn
\* ends with the error response.
C5_PartialOutputDiscarded ==
  \A h \in Handlers :
    TransportErrorAfterFirst(h) =>
      /\ ~proc[h].returned
      /\ proc[h].agentMessages = <<>>
      /\ proc[h].pc = "done"
      /\ proc[h].response.status = 500
      /\ \A i \in DOMAIN messages : messages[i].role = "user"

\* A transport error in a later iteration, with messages already collected.
C5_Witness ==
  /\ TransportErrorAfterFirst("h1")
  /\ Len(proc["h1"].newMessages) >= 2
  /\ proc["h1"].pc = "done"

\* C6: when the completion provider returns a non-success response in any
\* iteration, the loop does not recover: no further completion call is made,
\* the turn ends with {error} and a non-success status, and no assistant
\* message of the run is stored.
C6_ProviderErrorAbortsTurn ==
  \A h \in Handlers :
    (\E k \in DOMAIN proc[h].met : proc[h].met[k] = "http") =>
      /\ proc[h].met[Len(proc[h].met)] = "http"
      /\ proc[h].pc = "done"
      /\ proc[h].response.status = 500
      /\ proc[h].response.error = "OpenAI API error: 500 - overloaded"
      /\ proc[h].response.response = ""
      /\ proc[h].response.conversationId = NoId
      /\ \A i \in DOMAIN messages : messages[i].role # "assistant"

\* A non-success response in the third iteration.
C6_Witness ==
  /\ Len(proc["h1"].met) = 3
  /\ proc["h1"].met[3] = "http"
  /\ proc["h1"].response.status = 500

\* C7: for every interleaving of two turns on one conversation, the stored
\* log of the conversation keeps the pairing: every stored tool message
\* carries the id of exactly one tool call of the nearest preceding stored
\* assistant message.
C7_StoredPairing ==
  \A c \in {conversations[i].id : i \in DOMAIN conversations} :
    LET log == SelectHistory(messages, c, 1) IN
    \A i \in ToolPositions(log) : Cardinality(MatchingCalls(log, i)) = 1

\* A handler is inside runAgent.
InRun(h) == proc[h].pc \in {"callOpenAI", "executeTool"}

\* C8: at most one orchestrator run is active for a conversation id.
C8_MutualExclusion ==
  \A g, h \in Handlers :
    (g # h /\ InRun(g) /\ InRun(h))
    => proc[g].actualConversationId # proc[h].actualConversationId

\* C9: whenever a turn returns a success response, every message produced by
\* runAgent in the turn is in the stored log, in the order produced, after
\* the turn's user message, and none is skipped.
C9_AllProducedStored ==
  \A h \in Handlers :
    (proc[h].pc = "done" /\ proc[h].returned /\ proc[h].response.status = 200) =>
      /\ proc[h].userRow > 0
      /\ Len(messages) = proc[h].userRow + Len(proc[h].agentMessages)
      /\ \A i \in DOMAIN proc[h].agentMessages :
           messages[proc[h].userRow + i]
             = Row(proc[h].actualConversationId, proc[h].agentMessages[i])

\* C10: if the first completion response carries no tool calls, the loop ends
\* after exactly one iteration and the output is that one assistant message.
C10_NoToolCallsOneIteration ==
  \A h \in Handlers :
    (Len(proc[h].replies) >= 1 /\ Len(proc[h].replies[1].tool_calls) = 0) =>
      /\ proc[h].completions = 1
      /\ proc[h].iterations = 1
      /\ proc[h].returned
      /\ proc[h].agentMessages = <<proc[h].replies[1]>>
      /\ proc[h].agentMessages[1].role = "assistant"

\* A first response from the provider without tool calls, stored and answered.
C10_Witness ==
  /\ proc["h1"].met = <<"ok">>
  /\ Len(proc["h1"].replies[1].tool_calls) = 0
  /\ proc["h1"].response.status = 200
  /\ proc["h1"].response.response = "Hi there!"

\* C11: without the completion credential, a run that has made its completion
\* call has returned exactly one assistant message with the fixed diagnostic
\* text, after one iteration and one call, and has invoked no tool.
C11_MissingCredentialDiagnostic ==
  \A h \in Handlers :
    (~env.openaiKey /\ proc[h].completions > 0) =>
      /\ proc[h].returned
      /\ proc[h].thrownBy = ""
      /\ proc[h].agentMessages =
           <<[role |-> "assistant",
              content |-> "Error: OPENAI_API_KEY not configured. Please add your OpenAI API key to secrets.",
              tool_calls |-> <<>>, tool_call_id |-> ""]>>
      /\ proc[h].iterations = 1
      /\ proc[h].completions = 1
      /\ proc[h].invoked = <<>>

C11_Witness ==
  /\ ~env.openaiKey
  /\ proc["h1"].completions = 1
  /\ proc["h1"].returned
  /\ proc["h1"].pc = "done"
  /\ proc["h1"].response.status = 200

\* The tool call handler h is about to execute names a tool that is not
\* registered.
UnknownToolNext(h) ==
  /\ proc[h].pc = "executeTool"
  /\ proc[h].toolCalls[proc[h].toolIdx].name # "web_search"

\* C12: the step that executes a call of an unregistered tool appends the
\* tool message whose content is exactly "Unknown tool: {name}" and whose
\* tool_call_id is the call's id, raises nothing, and the loop goes on
\* instead of aborting: to the next tool call of the message, else to the
\* next completion call.
C12_UnknownToolReported ==
  [][\A h \in Handlers :
       (UnknownToolNext(h) /\ proc'[h] # proc[h]) =>
         LET p == proc[h]
             q == proc'[h]
             toolCall == p.toolCalls[p.toolIdx]
         IN /\ q.newMessages = Append(p.newMessages,
                  [role |-> "tool", content |-> "Unknown tool: " \o toolCall.name,
                   tool_calls |-> <<>>, tool_call_id |-> toolCall.id])
            /\ q.conversationMessages[Len(q.conversationMessages)]
                  = q.newMessages[Len(q.newMessages)]
            /\ q.thrownBy = ""
            /\ q.response.status # 500
            /\ IF p.toolIdx < Len(p.toolCalls)
               THEN q.pc = "executeTool" /\ q.toolIdx = p.toolIdx + 1
               ELSE q.pc = "callOpenAI" /\ q.iterations = p.iterations + 1]_vars

\* A history holds a tool message whose tool_call_id is listed by no tool call
\* of the nearest assistant message before it.
OrphanedToolMessage(history) ==
  \E i \in ToolPositions(history) : MatchingCalls(history, i) = {}

\* C13: a turn whose loaded history is malformed (it holds an orphaned tool
\* message) makes no completion call and ends with the failure response; no
\* transcript sent to the provider contains that history.
C13_MalformedHistoryRejected ==
  \A h \in Handlers :
    (proc[h].pc \notin {"idle", "create", "saveUser", "loadHistory"}
     /\ OrphanedToolMessage(proc[h].history)) =>
      /\ proc[h].completions = 0
      /\ proc[h].sent = <<>>
      /\ proc[h].pc = "done"
      /\ proc[h].response.status = 500

\* C14: with the deterministic stub provider and deterministic tools, two
\* runs of runAgent that were called with the same history and have both
\* ended have ended the same way, and if they returned, they returned the
\* same sequence of messages.
C14_DeterministicRun ==
  \A g, h \in Handlers :
    (/\ proc[g].history = proc[h].history
     /\ proc[g].history # <<>>
     /\ proc[g].returned \/ proc[g].thrownAt > 0
     /\ proc[h].returned \/ proc[h].thrownAt > 0) =>
      /\ proc[g].returned = proc[h].returned
      /\ proc[g].agentMessages = proc[h].agentMessages
      /\ proc[g].replies = proc[h].replies
      /\ proc[g].invoked = proc[h].invoked

\* Two runs in different conversations, called with the same history, have
\* both returned an output that holds a tool message.
C14_Witness ==
  /\ proc["h1"].returned /\ proc["h2"].returned
  /\ proc["h1"].actualConversationId # proc["h2"].actualConversationId
  /\ proc["h1"].history = proc["h2"].history
  /\ Len(proc["h1"].agentMessages) = 3
  /\ proc["h1"].agentMessages[2].role = "tool"

\* The first 50 characters of the user messages of the model.
First50(message) ==
  IF message = "Hello" THEN "Hello"
  ELSE "What's the weather in Paris today, and will it rai"

\* A turn past the creation step: with a conversation id in the request it
\* has created nothing and works on that id; without one it has created one
\* conversation, titled with the first 50 characters of its message, when the
\* body was JSON with a string message and the store accepted the insert;
\* otherwise it ended there with the error response (or, for a preflight,
\* with the empty 200 response) and created nothing.
CreatedWhenNoId(h) ==
  LET p == proc[h] IN
  p.pc \notin {"idle", "create"} =>
    IF p.conversationId # NoId
    THEN ~p.created /\ p.actualConversationId = p.conversationId
    ELSE \/ /\ p.created
            /\ p.method = "POST"
            /\ p.messageType = "string"
            /\ p.actualConversationId \in DOMAIN conversations
            /\ conversations[p.actualConversationId].id = p.actualConversationId
            /\ conversations[p.actualConversationId].title = First50(p.message)
            /\ Len(conversations[p.actualConversationId].title) <= 50
         \/ /\ ~p.created
            /\ p.method = "POST"
            /\ p.pc = "done"
            /\ p.response.status = 500
            /\ \/ p.thrownBy = "req.json"
               \/ p.thrownBy = "substring" /\ p.messageType # "string"
               \/ p.thrownBy = "store" /\ p.messageType = "string"
            /\ p.actualConversationId = NoId
            /\ p.userRow = 0
         \/ /\ ~p.created
            /\ p.method = "OPTIONS"
            /\ p.pc = "done"
            /\ p.response = OptionsResponse

\* C15 as first stated: every POST request that has ended has created a
\* conversation exactly when it carried no conversation id.
C15_CreatedExactlyWithoutId ==
  \A h \in Handlers :
    (proc[h].pc = "done" /\ proc[h].method = "POST")
      => (proc[h].created <=> proc[h].conversationId = NoId)

\* C15: a turn creates a conversation exactly when its request carries no
\* conversation id, its body is JSON with a string message and the insert
\* succeeds, with the first 50 characters of the turn's user message as
\* title; a request without id that fails one of these ends with the error
\* response and creates nothing; the only change a step makes to the
\* conversations table is the row appended by such a turn: a turn on an
\* existing id appends none, and no row's title ever changes.
C15_ConversationCreatedWithoutId ==
  /\ [](/\ \A h \in Handlers : CreatedWhenNoId(h)
        /\ Len(conversations) = Cardinality({h \in Handlers : proc[h].created}))
  /\ [][/\ \A i \in DOMAIN conversations :
            i \in DOMAIN conversations' /\ conversations'[i] = conversations[i]
        /\ conversations' # conversations =>
             \E h \in Handlers :
               /\ proc[h].pc = "create"
               /\ proc[h].conversationId = NoId
               /\ proc'[h].created
               /\ conversations' =
                    Append(conversations,
                           [id |-> proc'[h].actualConversationId,
                            title |-> First50(proc[h].message)])]_vars

\* One turn created conversation 1 from the long message, the other turn ran
\* on conversation 1 and answered.
C15_Witness ==
  /\ Len(conversations) = 1
  /\ Len(conversations[1].title) = 50
  /\ \E g, h \in Handlers :
       /\ proc[g].created /\ Len(proc[g].message) > 50
       /\ proc[h].conversationId = 1 /\ ~proc[h].created
       /\ proc[h].pc = "done" /\ proc[h].response.status = 200
       /\ proc[h].response.conversationId = 1

NoSystemMessage(seq) == \A i \in DOMAIN seq : seq[i].role # "system"

\* C16: the transcript of every completion call (the one awaited and the last
\* one made) is the system message, then the history the turn loaded, then
\* the messages this run has produced up to the call, with no other system
\* message in it; runAgent's output holds no system message, and neither
\* does the store.
C16_OneSystemMessageNeverStored ==
  /\ \A h \in Handlers :
       LET p == proc[h] IN
       /\ p.pc = "callOpenAI" =>
            /\ p.conversationMessages = <<systemMessage>> \o p.history \o p.newMessages
            /\ p.conversationMessages[1].role = "system"
            /\ NoSystemMessage(Tail(p.conversationMessages))
       /\ p.sent # <<>> =>
            /\ p.sent[1] = systemMessage
            /\ NoSystemMessage(Tail(p.sent))
            /\ Len(p.sent) >= 1 + Len(p.history)
            /\ SubSeq(p.sent, 2, 1 + Len(p.history)) = p.history
            /\ Len(p.sent) - 1 - Len(p.history) <= Len(p.newMessages)
            /\ SubSeq(p.sent, 2 + Len(p.history), Len(p.sent))
                 = SubSeq(p.newMessages, 1, Len(p.sent) - 1 - Len(p.history))
       /\ NoSystemMessage(p.newMessages)
       /\ NoSystemMessage(p.agentMessages)
  /\ NoSystemMessage(messages)

\* The second completion call of a turn on a conversation with an earlier
\* turn: the transcript holds the system message, a history of at least three
\* messages and the two messages of this run.
C16_Witness ==
  \E h \in Handlers :
    /\ proc[h].completions = 2
    /\ Len(proc[h].history) >= 3
    /\ Len(proc[h].sent) = 1 + Len(proc[h].history) + 2
    /\ proc[h].sent[Len(proc[h].sent)].role = "tool"
    /\ proc[h].pc = "done"
    /\ proc[h].response.status = 200

RECURSIVE CallIds(_, _)
\* The ids of the tool calls of the messages of seq from position i on, in
\* order.
CallIds(seq, i) ==
  IF i > Len(seq) THEN <<>>
  ELSE [k \in DOMAIN seq[i].tool_calls |-> seq[i].tool_calls[k].id]
       \o CallIds(seq, i + 1)

\* The assistant message at position j of out, with tool calls c1..cn, is
\* directly followed by exactly n tool messages, the i-th with ci's id.
FollowedByItsToolMessages(out, j) ==
  LET n == Len(out[j].tool_calls) IN
  /\ j + n <= Len(out)
  /\ \A i \in 1..n :
       /\ out[j + i].role = "tool"
       /\ out[j + i].tool_call_id = out[j].tool_calls[i].id
  /\ j + n + 1 <= Len(out) => out[j + n + 1].role # "tool"

\* C17: the tools are invoked one at a time in the order of the tool calls
\* of the assistant messages; each invocation that returns adds one tool
\* message; and whenever the next completion call is awaited or the output
\* has been returned, every assistant message with tool calls c1..cn is
\* directly followed by exactly n tool messages, the i-th carrying ci's id,
\* and every call has been invoked.
C17_ToolCallsInOrder ==
  \A h \in Handlers :
    LET p == proc[h]
        out == p.newMessages
        ids == CallIds(out, 1)
    IN /\ Len(p.invoked) <= Len(ids)
       /\ p.invoked = SubSeq(ids, 1, Len(p.invoked))
       /\ p.thrownBy # "executeTool" =>
            Cardinality(ToolPositions(out)) = Len(p.invoked)
       /\ p.pc = "executeTool" =>
            /\ p.toolCalls = out[Len(out) - (p.toolIdx - 1)].tool_calls
            /\ Len(p.invoked) = Len(ids) - Len(p.toolCalls) + p.toolIdx - 1
       /\ (p.pc = "callOpenAI" \/ p.returned) =>
            /\ p.invoked = ids
            /\ \A j \in DOMAIN out :
                 (out[j].role = "assistant" /\ Len(out[j].tool_calls) > 0)
                 => FollowedByItsToolMessages(out, j)

\* An output in which an assistant message with two tool calls is followed by
\* the two tool messages call_1, call_2 and then by the next assistant message.
C17_Witness ==
  /\ proc["h1"].returned
  /\ Len(proc["h1"].agentMessages) >= 4
  /\ Len(proc["h1"].agentMessages[1].tool_calls) = 2
  /\ proc["h1"].agentMessages[2].tool_call_id = "call_1"
  /\ proc["h1"].agentMessages[3].tool_call_id = "call_2"
  /\ proc["h1"].agentMessages[4].role = "assistant"
  /\ proc["h1"].invoked = <<"call_1", "call_2">>

\* The run of handler h is over, it made at least one completion call, and
\* every completion call got a response that carries at least one tool call.
EveryResponseCallsTools(h) ==
  /\ proc[h].pc \in {"saveMessages", "done"}
  /\ proc[h].completions > 0
  /\ Len(proc[h].replies) = proc[h].completions
  /\ \A i \in DOMAIN proc[h].replies : Len(proc[h].replies[i].tool_calls) > 0

\* C18: a run in which every completion response carries at least one tool
\* call makes exactly 5 completion calls, executes the tool calls of all 5
\* assistant messages, and returns an output whose last message is a tool
\* message.
C18_CapReachedEndsWithTool ==
  \A h \in Handlers :
    EveryResponseCallsTools(h) =>
      /\ proc[h].completions = 5
      /\ proc[h].returned
      /\ proc[h].invoked = CallIds(proc[h].replies, 1)
      /\ Len(proc[h].agentMessages) > 0
      /\ proc[h].agentMessages[Len(proc[h].agentMessages)].role = "tool"

\* C19: a run of runAgent that awaits a completion call eventually ends: it
\* returns its output (a final answer or the cap) or an error leaves it.
C19_RunTerminates ==
  \A h \in Handlers :
    (proc[h].pc = "callOpenAI") ~> (proc[h].returned \/ proc[h].thrownBy # "")

\* A run that ended at the cap, after five completion calls with tool calls.
C19_Witness ==
  /\ proc["h1"].returned
  /\ proc["h1"].iterations = 5
  /\ Len(proc["h1"].invoked) >= 5
  /\ proc["h1"].pc = "done"

\* The turn of handler h failed after its user message was stored.
FailedAfterUserMessage(h) == proc[h].thrownBy # "" /\ proc[h].userRow > 0

\* C20: when a turn fails after its user message was stored, the turn has
\* ended with the error response, which carries no conversation id; the user
\* message is still in the store, and so is the conversation row if the turn
\* created one; and no message of the run is in the store: every stored
\* message that is not a user message was saved by another turn.
C20_NoRollbackOnFailure ==
  \A h \in Handlers :
    FailedAfterUserMessage(h) =>
      LET p == proc[h] IN
      /\ p.pc = "done"
      /\ p.response.status = 500
      /\ p.response.conversationId = NoId
      /\ p.response.response = ""
      /\ p.response.error # ""
      /\ p.userRow \in DOMAIN messages
      /\ messages[p.userRow] =
           [conversation_id |-> p.actualConversationId, role |-> "user",
            content |-> p.message, tool_calls |-> <<>>, tool_call_id |-> ""]
      /\ p.created =>
           /\ p.actualConversationId \in DOMAIN conversations
           /\ conversations[p.actualConversationId].id = p.actualConversationId
      /\ p.savedAt = <<>>
      /\ \A i \in DOMAIN messages :
           messages[i].role # "user" =>
             \E g \in Handlers \ {h} :
               \E k \in DOMAIN proc[g].savedAt : proc[g].savedAt[k] = i

\* A turn that created its conversation and failed on a transport error of
\* its second completion call, after the run had produced messages.
C20_Witness ==
  /\ proc["h1"].thrownBy = "callOpenAI"
  /\ proc["h1"].thrownAt = 2
  /\ proc["h1"].met[2] = "network"
  /\ Len(proc["h1"].newMessages) >= 2
  /\ proc["h1"].created
  /\ Len(conversations) = 1
  /\ Len(messages) = 1
  /\ proc["h1"].response.status = 500

\* C21: in the useChat hook, once no fetchMessages call is pending, every
\* message of the list is a row of the active conversation; and the list
\* never holds two messages with the same id, nor a message whose role is
\* neither user nor assistant.
C21_ListOfActiveConversation ==
  /\ chat.fetches = <<>> =>
       \A k \in DOMAIN chat.messages :
         messages[chat.messages[k].id].conversation_id = chat.activeConversationId
  /\ \A j, k \in DOMAIN chat.messages :
       chat.messages[j].id = chat.messages[k].id => j = k
  /\ \A k \in DOMAIN chat.messages : Visible(chat.messages[k].role)

====
